---- MODULE Spec2Model ----
(***************************************************************************)
(* A model of the HTTP server of src/src/main.rs: the accept loop (main),  *)
(* one handler thread per connection (handle), the request parser          *)
(* (parse_request), the router (route), the content encoder (encode) and   *)
(* the response writer (answer).  Byte strings are sequences of one-        *)
(* character strings; the working directory is a map from file names to    *)
(* optional contents.                                                      *)
(***************************************************************************)
EXTENDS Integers, Sequences, FiniteSets, TLC

VARIABLES
    listening,   \* the TcpListener is bound and main is in its accept loop
    accepted,    \* number of connections main has accepted and spawned
    acceptFailed, \* main has logged a failed accept
    pc,          \* per connection: position of its handler thread
    result,      \* per connection: how the handler thread ended
    inbuf,       \* per connection: bytes sent by the peer, not yet consumed
    eof,         \* per connection: the peer has shut down its sending side
    cur,         \* per connection: the request being handled (local of handle)
    io,          \* per connection: result of the store call made by route
    resp,        \* per connection: the response built by route
    out,         \* per connection: log of the responses written to the peer
    nparsed,     \* per connection: number of requests parse_request returned
    store,       \* the working directory: file name -> contents
    touch,       \* history: per file, the last store write to touch it
    seen         \* history: per connection, touch of the file its request read

vars == <<listening, accepted, acceptFailed, pc, result, inbuf, eof,
          cur, io, resp, out, nparsed, store, touch, seen>>

(***************************************************************************)
(* Bounds of the model.                                                    *)
(***************************************************************************)
MaxConns == 2

Conns == 1..MaxConns

(***************************************************************************)
(* Characters and string helpers (Rust str / String methods).              *)
(***************************************************************************)
SP == " "
CR == "\r"
LF == "\n"
TAB == "\t"
COLON == ":"
COMMA == ","
CRLF == <<CR, LF>>

\* A byte that is not valid UTF-8 (read_line rejects a line holding it).
BADBYTE == "0xFF"

WhiteSpace == {SP, CR, LF, TAB}

Digits == <<"0", "1", "2", "3", "4", "5", "6", "7", "8", "9">>

IsDigit(ch) == \E i \in 1..10 : Digits[i] = ch

DigitVal(ch) == (CHOOSE i \in 1..10 : Digits[i] = ch) - 1

Drop(s, n) == SubSeq(s, n + 1, Len(s))

Take(s, n) == SubSeq(s, 1, n)

StartsWith(s, p) == Len(s) >= Len(p) /\ Take(s, Len(p)) = p

\* Index of the first occurrence of ch in s, 0 when there is none.
Find(s, ch) ==
    IF \E i \in 1..Len(s) : s[i] = ch
    THEN CHOOSE i \in 1..Len(s) : s[i] = ch /\ \A j \in 1..(i - 1) : s[j] # ch
    ELSE 0

RECURSIVE TrimStart(_)
TrimStart(s) ==
    IF s # <<>> /\ Head(s) \in WhiteSpace THEN TrimStart(Tail(s)) ELSE s

RECURSIVE TrimEnd(_)
TrimEnd(s) ==
    IF s # <<>> /\ s[Len(s)] \in WhiteSpace
    THEN TrimEnd(Take(s, Len(s) - 1))
    ELSE s

Trim(s) == TrimEnd(TrimStart(s))

\* str::split(sep): the fields between the separators, empty fields kept.
RECURSIVE Split(_, _)
Split(s, sep) ==
    LET i == Find(s, sep)
    IN IF i = 0 THEN <<s>> ELSE <<Take(s, i - 1)>> \o Split(Drop(s, i), sep)

\* usize::to_string: decimal digits of n >= 0.
RECURSIVE ToDigits(_)
ToDigits(n) ==
    IF n < 10 THEN <<Digits[n + 1]>>
    ELSE ToDigits(n \div 10) \o <<Digits[(n % 10) + 1]>>

I32Max == 2147483647

\* Checked decimal accumulation (i32 checked_mul/checked_add): -1 on overflow.
RECURSIVE DigitsValue(_, _)
DigitsValue(s, acc) ==
    IF s = <<>> THEN acc
    ELSE IF acc > (I32Max - DigitVal(Head(s))) \div 10 THEN 0 - 1
    ELSE DigitsValue(Tail(s), acc * 10 + DigitVal(Head(s)))

\* str::parse::<i32>: an optional sign, then at least one digit, digits only,
\* within the range of i32.
ParseI32(s) ==
    LET signed == s # <<>> /\ Head(s) \in {"+", "-"}
        ds == IF signed THEN Tail(s) ELSE s
        okDigits == ds # <<>> /\ \A i \in 1..Len(ds) : IsDigit(ds[i])
        mag == IF okDigits THEN DigitsValue(ds, 0) ELSE 0 - 1
    IN IF mag < 0
       THEN [ok |-> FALSE, val |-> 0]
       ELSE [ok |-> TRUE,
             val |-> IF signed /\ Head(s) = "-" THEN 0 - mag ELSE mag]

(***************************************************************************)
(* Option<Vec<u8>> and HashMap<String, String>.                            *)
(***************************************************************************)
None == [some |-> FALSE, bytes |-> <<>>]

Some(b) == [some |-> TRUE, bytes |-> b]

EmptyMap == <<>>

Insert(h, k, v) == (k :> v) @@ h

HasKey(h, k) == k \in DOMAIN h

(***************************************************************************)
(* Header names and tokens the program compares against.                   *)
(***************************************************************************)
S_GET == <<"G", "E", "T">>
S_POST == <<"P", "O", "S", "T">>
S_Root == <<"/">>
S_Echo == <<"/", "e", "c", "h", "o", "/">>
S_UserAgentPath == <<"/", "u", "s", "e", "r", "-", "a", "g", "e", "n", "t">>
S_Files == <<"/", "f", "i", "l", "e", "s", "/">>
S_close == <<"c", "l", "o", "s", "e">>
S_gzip == <<"g", "z", "i", "p">>
S_textplain == <<"t", "e", "x", "t", "/", "p", "l", "a", "i", "n">>
S_octet == <<"a", "p", "p", "l", "i", "c", "a", "t", "i", "o", "n", "/",
             "o", "c", "t", "e", "t", "-", "s", "t", "r", "e", "a", "m">>
H_ContentLength == <<"C", "o", "n", "t", "e", "n", "t", "-",
                     "L", "e", "n", "g", "t", "h">>
H_ContentType == <<"C", "o", "n", "t", "e", "n", "t", "-", "T", "y", "p", "e">>
H_ContentEncoding == <<"C", "o", "n", "t", "e", "n", "t", "-",
                       "E", "n", "c", "o", "d", "i", "n", "g">>
H_AcceptEncoding == <<"A", "c", "c", "e", "p", "t", "-",
                      "E", "n", "c", "o", "d", "i", "n", "g">>
H_UserAgent == <<"U", "s", "e", "r", "-", "A", "g", "e", "n", "t">>
H_Connection == <<"C", "o", "n", "n", "e", "c", "t", "i", "o", "n">>

(***************************************************************************)
(* parse_request.                                                          *)
(***************************************************************************)
NoRequest ==
    [method |-> "Unknown", path |-> <<>>, version |-> <<>>,
     headers |-> EmptyMap, body |-> None]

\* Variant: read_line keeps waiting for the end of a line after the peer has
\* shut down its sending side.
ReadLine_wait_at_eof(buf, atEof, broken) ==
    LET i == Find(buf, LF)
        line == IF i > 0 THEN Take(buf, i) ELSE buf
        rest == IF i > 0 THEN Drop(buf, i) ELSE <<>>
    IN IF broken THEN [kind |-> "Err", line |-> <<>>, rest |-> buf]
       ELSE IF i = 0 THEN [kind |-> "Block", line |-> <<>>, rest |-> buf]
       ELSE IF \E j \in 1..Len(line) : line[j] = BADBYTE
            THEN [kind |-> "Err", line |-> <<>>, rest |-> rest]
       ELSE [kind |-> "Line", line |-> line, rest |-> rest]

\* BufRead::read_line on the connection: the bytes up to and including the
\* next LF; at end of stream whatever is left (possibly nothing) with Ok;
\* Err on a broken transport or on a line that is not UTF-8; it blocks while
\* the line is incomplete and the peer keeps the stream open.
ReadLine(buf, atEof, broken) ==
    LET i == Find(buf, LF)
        line == IF i > 0 THEN Take(buf, i) ELSE buf
        rest == IF i > 0 THEN Drop(buf, i) ELSE <<>>
    IN IF broken THEN [kind |-> "Err", line |-> <<>>, rest |-> buf]
       ELSE IF i = 0 /\ ~atEof THEN [kind |-> "Block", line |-> <<>>, rest |-> buf]
       ELSE IF \E j \in 1..Len(line) : line[j] = BADBYTE
            THEN [kind |-> "Err", line |-> <<>>, rest |-> rest]
       ELSE [kind |-> "Line", line |-> line, rest |-> rest]

\* The header loop of parse_request (lines 118-131).  The unwrap of line 125
\* fails on a line without a colon: kind "PanicEof" when the line is the
\* empty one read_line gives at the end of the stream, "PanicHeader" else.
RECURSIVE ParseHeaders(_, _, _, _)
ParseHeaders(buf, atEof, broken, headers) ==
    LET r == ReadLine(buf, atEof, broken)
        index == Find(r.line, COLON)
    IN IF r.kind # "Line"
       THEN [kind |-> r.kind, headers |-> headers, rest |-> r.rest]
       ELSE IF r.line = CRLF
       THEN [kind |-> "Ok", headers |-> headers, rest |-> r.rest]
       ELSE IF index = 0
       THEN [kind |-> IF r.line = <<>> THEN "PanicEof" ELSE "PanicHeader",
             headers |-> headers, rest |-> r.rest]
       ELSE ParseHeaders(r.rest, atEof, broken,
                         Insert(headers, Take(r.line, index - 1),
                                Trim(Drop(r.line, index))))

ParseMethod(tok) ==
    IF tok = S_GET THEN "Get" ELSE IF tok = S_POST THEN "Post" ELSE "Unknown"

\* reader.take(content_length as u64).read_to_end(..) (lines 141-145): up to
\* n bytes, fewer when the stream ends first.  A negative i32 cast to u64 is
\* at least 2^64 - 2^31, more than any stream holds, so it reads to the end.
ReadBody(buf, atEof, broken, n) ==
    LET short == n < 0 \/ n > Len(buf)
    IN IF broken THEN [kind |-> "Err", body |-> None, rest |-> buf]
       ELSE IF short /\ ~atEof THEN [kind |-> "Block", body |-> None, rest |-> buf]
       ELSE IF short THEN [kind |-> "Ok", body |-> Some(buf), rest |-> <<>>]
       ELSE [kind |-> "Ok", body |-> Some(Take(buf, n)), rest |-> Drop(buf, n)]

\* Variant: the body is read for every method.
ParseBody_any_method(method, headers, buf, atEof, broken) ==
    LET cl == IF HasKey(headers, H_ContentLength)
              THEN ParseI32(headers[H_ContentLength])
              ELSE [ok |-> TRUE, val |-> 0]
    IN IF ~cl.ok THEN [kind |-> "PanicLength", body |-> None, rest |-> buf]
       ELSE IF cl.val = 0 THEN [kind |-> "Ok", body |-> None, rest |-> buf]
       ELSE ReadBody(buf, atEof, broken, cl.val)

\* Lines 133-147: the body of a POST.
ParseBody(method, headers, buf, atEof, broken) ==
    LET cl == IF HasKey(headers, H_ContentLength)
              THEN ParseI32(headers[H_ContentLength])
              ELSE [ok |-> TRUE, val |-> 0]
    IN IF method # "Post" THEN [kind |-> "Ok", body |-> None, rest |-> buf]
       ELSE IF ~cl.ok THEN [kind |-> "PanicLength", body |-> None, rest |-> buf]
       ELSE IF cl.val = 0 THEN [kind |-> "Ok", body |-> None, rest |-> buf]
       ELSE ReadBody(buf, atEof, broken, cl.val)

\* Variant: the start line is rejected only when it has fewer than three
\* fields.
parse_request_min_fields(buf, atEof, broken) ==
    LET first == ReadLine(buf, atEof, broken)
        parts == Split(first.line, SP)
        hs == ParseHeaders(first.rest, atEof, broken, EmptyMap)
        method == ParseMethod(parts[1])
        bd == ParseBody(method, hs.headers, hs.rest, atEof, broken)
    IN IF first.kind # "Line"
       THEN [kind |-> first.kind, req |-> NoRequest, rest |-> first.rest]
       ELSE IF Len(parts) < 3
       THEN [kind |-> "None", req |-> NoRequest, rest |-> first.rest]
       ELSE IF hs.kind # "Ok"
       THEN [kind |-> hs.kind, req |-> NoRequest, rest |-> hs.rest]
       ELSE IF bd.kind # "Ok"
       THEN [kind |-> bd.kind, req |-> NoRequest, rest |-> bd.rest]
       ELSE [kind |-> "Some",
             req |-> [method |-> method,
                      path |-> TrimEnd(parts[2]),
                      version |-> TrimEnd(parts[3]),
                      headers |-> hs.headers,
                      body |-> bd.body],
             rest |-> bd.rest]

\* parse_request (lines 97-156).  kind is "Some" (Ok(Some(request))), "None"
\* (Ok(None)), "Err" (an io::Error), "PanicHeader" or "PanicEof" (the unwrap of
\* line 125 failed), "PanicLength" (the unwrap of line 136 failed) or "Block" (the
\* call is still waiting for bytes).
parse_request(buf, atEof, broken) ==
    LET first == ReadLine(buf, atEof, broken)
        parts == Split(first.line, SP)
        hs == ParseHeaders(first.rest, atEof, broken, EmptyMap)
        method == ParseMethod(parts[1])
        bd == ParseBody(method, hs.headers, hs.rest, atEof, broken)
    IN IF first.kind # "Line"
       THEN [kind |-> first.kind, req |-> NoRequest, rest |-> first.rest]
       ELSE IF Len(parts) # 3
       THEN [kind |-> "None", req |-> NoRequest, rest |-> first.rest]
       ELSE IF hs.kind # "Ok"
       THEN [kind |-> hs.kind, req |-> NoRequest, rest |-> hs.rest]
       ELSE IF bd.kind # "Ok"
       THEN [kind |-> bd.kind, req |-> NoRequest, rest |-> bd.rest]
       ELSE [kind |-> "Some",
             req |-> [method |-> method,
                      path |-> TrimEnd(parts[2]),
                      version |-> TrimEnd(parts[3]),
                      headers |-> hs.headers,
                      body |-> bd.body],
             rest |-> bd.rest]

(***************************************************************************)
(* Status and Response.                                                    *)
(***************************************************************************)
as_str(status) ==
    CASE status = "Ok" -> "200 OK"
      [] status = "Created" -> "201 Created"
      [] status = "NotFound" -> "404 Not Found"
      [] status = "ServerError" -> "500 Internal Server Error"

Response_status(status) ==
    [status |-> status, headers |-> EmptyMap, body |-> None]

Response_text(status, text) ==
    [status |-> status,
     headers |-> Insert(EmptyMap, H_ContentType, S_textplain),
     body |-> Some(text)]

Response_binary(data) ==
    [status |-> "Ok",
     headers |-> Insert(EmptyMap, H_ContentType, S_octet),
     body |-> Some(data)]

NoResponse == Response_status("NotFound")

(***************************************************************************)
(* The working directory as std::fs::read and std::fs::write see it.       *)
(* store maps the name of every existing regular file to its contents.     *)
(* The empty name does not name a file (ENOENT); "." names the directory   *)
(* itself (EISDIR).  Names with a "/" are outside the model's inputs.      *)
(***************************************************************************)
S_Dot == <<".">>

NoIo == [kind |-> "none", data |-> <<>>, err |-> "none"]

IoOk(data) == [kind |-> "ok", data |-> data, err |-> "none"]

IoErr(e) == [kind |-> "err", data |-> <<>>, err |-> e]

\* Display of the io::Error: "Is a directory (os error 21)".
ErrText(e) ==
    IF e = "IsADirectory"
    THEN <<"I", "s", " ", "a", " ", "d", "i", "r", "e", "c", "t", "o", "r", "y",
           " ", "(", "o", "s", " ", "e", "r", "r", "o", "r", " ", "2", "1", ")">>
    ELSE <<"N", "o", " ", "s", "u", "c", "h", " ", "f", "i", "l", "e", " ",
           "o", "r", " ", "d", "i", "r", "e", "c", "t", "o", "r", "y", " ",
           "(", "o", "s", " ", "e", "r", "r", "o", "r", " ", "2", ")">>

\* The error of opening name, "none" when the open succeeds.
OpenError(st, name, forWrite) ==
    IF name = <<>> THEN "NotFound"
    ELSE IF name = S_Dot THEN "IsADirectory"
    ELSE IF ~forWrite /\ ~HasKey(st, name) THEN "NotFound"
    ELSE "none"

\* std::fs::read(path): open and read to the end.
fs_read(st, name) ==
    IF OpenError(st, name, FALSE) # "none"
    THEN IoErr(OpenError(st, name, FALSE))
    ELSE IoOk(st[name])

\* std::fs::write(path, body) is File::create (open, create, truncate) and
\* then write_all from offset 0: two steps, other threads run in between.
\* Variant: the file is opened without truncation.
fs_create_keep(st, name) == IF HasKey(st, name) THEN st ELSE Insert(st, name, <<>>)

fs_create(st, name) == Insert(st, name, <<>>)

Overlay(old, new) == new \o Drop(old, Len(new))

fs_write_all(st, name, bytes) ==
    Insert(st, name, Overlay(IF HasKey(st, name) THEN st[name] ELSE <<>>, bytes))

(***************************************************************************)
(* route (lines 231-271), given the result of the store call it makes.     *)
(***************************************************************************)
\* Variant: the guard on ErrorKind::NotFound is missing.
StoreErrorResponse_all500(r) == Response_text("ServerError", ErrText(r.err))

\* The Err arms of lines 257-258 and 264-265.
StoreErrorResponse(r) ==
    IF r.err = "NotFound"
    THEN Response_status("NotFound")
    ELSE Response_text("ServerError", ErrText(r.err))

IsFilesPath(request) ==
    /\ request.path # S_Root
    /\ ~StartsWith(request.path, S_Echo)
    /\ ~StartsWith(request.path, S_UserAgentPath)
    /\ StartsWith(request.path, S_Files)

\* Variant: the key is sliced one byte early and keeps the slash.
FileKey_from_slash(request) == Drop(request.path, Len(S_Files) - 1)

\* The key of a /files/ request: &request.path[7..].
FileKey(request) == Drop(request.path, Len(S_Files))

CallsRead(request) == IsFilesPath(request) /\ request.method = "Get"

CallsWrite(request) ==
    IsFilesPath(request) /\ request.method = "Post" /\ request.body.some

\* Variant: "/user-agent" is matched by equality, not as a prefix.
route_user_agent_exact(request, r) ==
    IF request.path = S_Root
    THEN [kind |-> "Resp", resp |-> Response_status("Ok")]
    ELSE IF StartsWith(request.path, S_Echo)
    THEN [kind |-> "Resp",
          resp |-> Response_text("Ok", Drop(request.path, Len(S_Echo)))]
    ELSE IF request.path = S_UserAgentPath
    THEN [kind |-> "Resp",
          resp |-> Response_text("Ok",
                     IF HasKey(request.headers, H_UserAgent)
                     THEN request.headers[H_UserAgent]
                     ELSE <<>>)]
    ELSE IF StartsWith(request.path, S_Files) /\ request.method = "Get"
    THEN [kind |-> "Resp",
          resp |-> IF r.kind = "ok" THEN Response_binary(r.data)
                   ELSE StoreErrorResponse(r)]
    ELSE IF StartsWith(request.path, S_Files) /\ request.method = "Post"
    THEN IF ~request.body.some
         THEN [kind |-> "PanicBody", resp |-> NoResponse]
         ELSE [kind |-> "Resp",
               resp |-> IF r.kind = "ok" THEN Response_status("Created")
                        ELSE StoreErrorResponse(r)]
    ELSE [kind |-> "Resp", resp |-> Response_status("NotFound")]

\* kind "Resp": the response returned; kind "PanicBody": the unwrap of line
\* 261 failed.
route(request, r) ==
    IF request.path = S_Root
    THEN [kind |-> "Resp", resp |-> Response_status("Ok")]
    ELSE IF StartsWith(request.path, S_Echo)
    THEN [kind |-> "Resp",
          resp |-> Response_text("Ok", Drop(request.path, Len(S_Echo)))]
    ELSE IF StartsWith(request.path, S_UserAgentPath)
    THEN [kind |-> "Resp",
          resp |-> Response_text("Ok",
                     IF HasKey(request.headers, H_UserAgent)
                     THEN request.headers[H_UserAgent]
                     ELSE <<>>)]
    ELSE IF StartsWith(request.path, S_Files) /\ request.method = "Get"
    THEN [kind |-> "Resp",
          resp |-> IF r.kind = "ok" THEN Response_binary(r.data)
                   ELSE StoreErrorResponse(r)]
    ELSE IF StartsWith(request.path, S_Files) /\ request.method = "Post"
    THEN IF ~request.body.some
         THEN [kind |-> "PanicBody", resp |-> NoResponse]
         ELSE [kind |-> "Resp",
               resp |-> IF r.kind = "ok" THEN Response_status("Created")
                        ELSE StoreErrorResponse(r)]
    ELSE [kind |-> "Resp", resp |-> Response_status("NotFound")]

(***************************************************************************)
(* gzip and encode (lines 158-184).  The gzip container is kept: the magic *)
(* bytes and the method byte, the payload, and the trailer with the size   *)
(* of the input; the deflate stream itself is stood for by the input.      *)
(***************************************************************************)
GzMagic == <<"0x1f", "0x8b", "0x08">>

gzip(buffer) == GzMagic \o buffer \o <<ToString(Len(buffer))>>

\* Variant: the token is compared without regard to case.
encoder_found_anycase(request) ==
    /\ HasKey(request.headers, H_AcceptEncoding)
    /\ LET names == Split(request.headers[H_AcceptEncoding], COMMA)
       IN \E i \in 1..Len(names) :
             Trim(names[i]) \in {S_gzip, <<"G", "Z", "I", "P">>}

\* The loop of lines 166-174: some token of Accept-Encoding is "gzip".
encoder_found(request) ==
    /\ HasKey(request.headers, H_AcceptEncoding)
    /\ LET names == Split(request.headers[H_AcceptEncoding], COMMA)
       IN \E i \in 1..Len(names) : Trim(names[i]) = S_gzip

encode(request, response) ==
    IF response.body.some /\ encoder_found(request)
    THEN [response EXCEPT
            !.body = Some(gzip(response.body.bytes)),
            !.headers = Insert(response.headers, H_ContentEncoding, S_gzip)]
    ELSE response

(***************************************************************************)
(* should_close (lines 273-284) and answer (lines 186-229).                *)
(***************************************************************************)
\* Variant: the value is compared without regard to case.
should_close_anycase(request, response) ==
    IF HasKey(request.headers, H_Connection)
       /\ request.headers[H_Connection] \in {S_close, <<"C", "l", "o", "s", "e">>}
    THEN [close |-> TRUE,
          resp |-> [response EXCEPT
                      !.headers = Insert(response.headers, H_Connection, S_close)]]
    ELSE [close |-> FALSE, resp |-> response]

should_close(request, response) ==
    IF HasKey(request.headers, H_Connection)
       /\ request.headers[H_Connection] = S_close
    THEN [close |-> TRUE,
          resp |-> [response EXCEPT
                      !.headers = Insert(response.headers, H_Connection, S_close)]]
    ELSE [close |-> FALSE, resp |-> response]

\* Variant: the else branch of lines 199-201 is missing.
with_content_length_body_only(response) ==
    IF response.body.some
    THEN [response EXCEPT
            !.headers = Insert(response.headers, H_ContentLength,
                               ToDigits(Len(response.body.bytes)))]
    ELSE response

\* Lines 195-201: the framing header.
with_content_length(response) ==
    [response EXCEPT
       !.headers = Insert(response.headers, H_ContentLength,
                          IF response.body.some
                          THEN ToDigits(Len(response.body.bytes))
                          ELSE <<"0">>)]

\* What answer puts on the wire: the status line, the headers, the body.
answer(request, response) ==
    LET framed == with_content_length(response)
    IN [version |-> request.version,
        status |-> as_str(framed.status),
        headers |-> framed.headers,
        body |-> IF framed.body.some THEN framed.body.bytes ELSE <<>>]

(***************************************************************************)
(* The byte streams the peers send.                                        *)
(***************************************************************************)
V11 == <<"H", "T", "T", "P", "/", "1", ".", "1">>

StartLine(m, p) == m \o <<SP>> \o p \o <<SP>> \o V11 \o CRLF

Hdr(name, value) == name \o <<COLON, SP>> \o value \o CRLF

S_PUT == <<"P", "U", "T">>
P_EchoAb == S_Echo \o <<"a", "b">>
P_FileK == S_Files \o <<"k">>
P_FileJ == S_Files \o <<"j">>
P_FileDot == S_Files \o S_Dot
P_Nope == <<"/", "n", "o", "p", "e">>
P_UserAgentX == S_UserAgentPath \o <<"X">>
B_hi == <<"h", "i">>
B_xyz == <<"x", "y", "z">>
HdrGzip == Hdr(H_AcceptEncoding, S_gzip)
HdrClose == Hdr(H_Connection, S_close)
HdrCL(n) == Hdr(H_ContentLength, ToDigits(n))

Get(p) == StartLine(S_GET, p) \o CRLF
GetWith(p, hs) == StartLine(S_GET, p) \o hs \o CRLF
Post(p, b) == StartLine(S_POST, p) \o HdrCL(Len(b)) \o CRLF \o b
PostWith(p, hs, b) == StartLine(S_POST, p) \o hs \o CRLF \o b

\* Streams of the first connection.
Scripts ==
    { \* store round trip, then the same file with gzip, then close
      Post(P_FileK, B_hi) \o Get(P_FileK) \o GetWith(P_FileK, HdrGzip \o HdrClose),
      \* routes in dispatch order
      Get(S_Root) \o Get(P_EchoAb)
          \o GetWith(S_UserAgentPath, Hdr(H_UserAgent, <<"c", "u", "r", "l">>)),
      Get(P_UserAgentX) \o Get(P_Nope) \o StartLine(S_PUT, P_FileK) \o CRLF,
      Post(P_Nope, B_hi) \o Post(P_EchoAb, B_hi) \o Post(S_Root, B_hi),
      \* content negotiation
      GetWith(P_EchoAb, Hdr(H_AcceptEncoding,
                            <<"b", "r", ",", " ", "g", "z", "i", "p", " ">>))
          \o GetWith(P_EchoAb, Hdr(H_AcceptEncoding, <<"G", "Z", "I", "P">>))
          \o GetWith(S_Root, HdrGzip),
      GetWith(P_EchoAb, HdrGzip)
          \o GetWith(P_EchoAb, Hdr(H_AcceptEncoding, <<"b", "r">>))
          \o GetWith(S_Echo, HdrGzip),
      \* Connection header values
      GetWith(P_EchoAb, Hdr(H_Connection, <<"C", "l", "o", "s", "e">>))
          \o GetWith(S_Root, HdrClose) \o Get(P_EchoAb),
      GetWith(S_Root, Hdr(H_Connection,
                          <<"k", "e", "e", "p", "-", "a", "l", "i", "v", "e">>))
          \o GetWith(P_Nope, Hdr(H_Connection, <<SP, "c", "l", "o", "s", "e", SP>>))
          \o Get(S_Root),
      \* store errors
      Post(P_FileDot, B_hi) \o Get(P_FileDot) \o Post(S_Files, B_hi),
      Post(P_FileK, B_hi) \o Get(P_FileJ) \o Get(S_Files)
          \o Post(P_FileJ, B_xyz) \o Get(P_FileJ),
      \* a POST to the store without a body
      Get(S_Root) \o PostWith(P_FileK, <<>>, <<>>),
      PostWith(P_FileK, HdrCL(0), <<>>),
      \* malformed headers
      Get(S_Root) \o StartLine(S_GET, S_Root) \o <<"X", "-", "Y">> \o CRLF \o CRLF,
      PostWith(P_FileK, Hdr(H_ContentLength, <<"x">>), B_hi),
      \* malformed start lines
      Get(S_Root) \o S_GET \o <<SP>> \o S_Root \o CRLF \o Get(S_Root),
      S_GET \o <<SP>> \o S_Root \o <<SP, SP>> \o V11 \o CRLF \o CRLF,
      <<>>,
      \* a line that is not UTF-8
      StartLine(S_GET, <<"/", BADBYTE>>) \o CRLF,
      \* a negative Content-Length, and one larger than the bytes that follow
      PostWith(P_FileK, Hdr(H_ContentLength, <<"-", "1">>), B_hi),
      PostWith(P_FileK, HdrCL(Len(B_hi) + 1), B_hi),
      \* the stream ends inside the header block
      Get(S_Root) \o StartLine(S_GET, S_Root) \o Hdr(H_UserAgent, <<"X">>),
      \* requests other than POST that announce a body
      GetWith(S_Root, HdrCL(Len(Get(P_EchoAb)))) \o Get(P_EchoAb)
          \o StartLine(S_PUT, P_Nope) \o HdrCL(Len(B_hi)) \o CRLF \o B_hi }

\* Streams of the other connections.
OtherScripts ==
    { Post(P_FileK, B_xyz) \o GetWith(P_FileK, HdrClose),
      Get(P_FileK),
      StartLine(S_GET, S_Root) \o <<"X">> \o CRLF \o CRLF }

\* Streams of the connections after the second.
LaterScripts ==
    { Get(P_FileK),
      StartLine(S_GET, S_Root) \o <<"X">> \o CRLF \o CRLF }

ScriptsOf(c) ==
    IF c = 1 THEN Scripts ELSE IF c = 2 THEN OtherScripts ELSE LaterScripts

(***************************************************************************)
(* The state machine.                                                      *)
(***************************************************************************)
\* History of the writes to a file: the connection and the request (by its
\* number on the connection) whose write touched the file last, and phase:
\* "created" after its open, "written" after its write_all when nothing else
\* touched the file since its open, "mixed" after its write_all otherwise.
NoTouch == [conn |-> 0, idx |-> 0, phase |-> "none"]

TouchOf(key) == IF HasKey(touch, key) THEN touch[key] ELSE NoTouch

Init ==
    /\ listening = TRUE
    /\ accepted = 0
    /\ acceptFailed = FALSE
    /\ pc = [c \in Conns |-> "Idle"]
    /\ result = [c \in Conns |-> "none"]
    /\ inbuf = [c \in Conns |-> <<>>]
    /\ eof = [c \in Conns |-> FALSE]
    /\ cur = [c \in Conns |-> NoRequest]
    /\ io = [c \in Conns |-> NoIo]
    /\ resp = [c \in Conns |-> NoResponse]
    /\ out = [c \in Conns |-> <<>>]
    /\ nparsed = [c \in Conns |-> 0]
    /\ store = EmptyMap
    /\ touch = EmptyMap
    /\ seen = [c \in Conns |-> NoTouch]

Panics == {"panic_header", "panic_eof", "panic_length", "panic_body"}

\* Variant: a panic of a handler thread aborts the process, main included.
thread_exit_abort(c, how) ==
    /\ pc' = [pc EXCEPT ![c] = "Closed"]
    /\ result' = [result EXCEPT ![c] = how]
    /\ cur' = [cur EXCEPT ![c] = NoRequest]
    /\ io' = [io EXCEPT ![c] = NoIo]
    /\ resp' = [resp EXCEPT ![c] = NoResponse]
    /\ listening' = (how \notin Panics)

\* Variant: the loop of handle lacks its break: after Ok(None) or a closing
\* response it reads the next request.
thread_exit_no_break(c, how) ==
    /\ pc' = [pc EXCEPT ![c] = IF how = "ok" THEN "AwaitRequest" ELSE "Closed"]
    /\ result' = [result EXCEPT ![c] = how]
    /\ cur' = [cur EXCEPT ![c] = NoRequest]
    /\ io' = [io EXCEPT ![c] = NoIo]
    /\ resp' = [resp EXCEPT ![c] = NoResponse]
    /\ listening' = listening

\* The handler thread of c ends: how is "ok" (handle returned Ok), "err"
\* (handle returned Err) or one of Panics (an unwrap failed and the thread
\* unwound).  The stream is dropped in each case; main is not affected
\* (lines 328-335).
thread_exit(c, how) ==
    /\ pc' = [pc EXCEPT ![c] = "Closed"]
    /\ result' = [result EXCEPT ![c] = how]
    /\ cur' = [cur EXCEPT ![c] = NoRequest]
    /\ io' = [io EXCEPT ![c] = NoIo]
    /\ resp' = [resp EXCEPT ![c] = NoResponse]
    /\ listening' = listening

\* main, lines 323-336: accept a connection and spawn its handler.
Accept(c) ==
    /\ listening
    /\ c = accepted + 1
    /\ accepted' = c
    /\ \E s \in ScriptsOf(c) : inbuf' = [inbuf EXCEPT ![c] = s]
    /\ pc' = [pc EXCEPT ![c] = "AwaitRequest"]
    /\ result' = [result EXCEPT ![c] = "running"]
    /\ UNCHANGED <<listening, acceptFailed, eof, cur, io, resp, out,
                   nparsed, store, touch, seen>>

\* main, lines 337-339: a failed accept is logged and the loop goes on.
AcceptError ==
    /\ listening
    /\ acceptFailed' = TRUE
    /\ UNCHANGED <<listening, accepted, pc, result, inbuf, eof, cur, io,
                   resp, out, nparsed, store, touch, seen>>

\* The peer shuts down its sending side.  A handler sees the shutdown only
\* in a read that finds the stream short of bytes, so the step is taken
\* when the handler waits in such a read.
PeerClose(c) ==
    /\ pc[c] = "AwaitRequest"
    /\ ~eof[c]
    /\ parse_request(inbuf[c], FALSE, FALSE).kind = "Block"
    /\ eof' = [eof EXCEPT ![c] = TRUE]
    /\ UNCHANGED <<listening, accepted, acceptFailed, pc, result, inbuf,
                   cur, io, resp, out, nparsed, store, touch, seen>>

\* handle, line 291: parse_request and the branch on its result.  broken:
\* the transport fails (connection reset) in the first read of the call.
ParseRequest(c) ==
    /\ pc[c] = "AwaitRequest"
    /\ \E broken \in BOOLEAN :
       LET r == parse_request(inbuf[c], eof[c], broken)
       IN /\ r.kind # "Block"
          /\ inbuf' = [inbuf EXCEPT ![c] = r.rest]
          /\ IF r.kind = "Some"
             THEN /\ pc' = [pc EXCEPT ![c] = "Dispatching"]
                  /\ cur' = [cur EXCEPT ![c] = r.req]
                  /\ nparsed' = [nparsed EXCEPT ![c] = @ + 1]
                  /\ UNCHANGED <<listening, result, io, resp>>
             ELSE /\ thread_exit(c, CASE r.kind = "None" -> "ok"
                                      [] r.kind = "Err" -> "err"
                                      [] r.kind = "PanicHeader" -> "panic_header"
                                      [] r.kind = "PanicEof" -> "panic_eof"
                                      [] r.kind = "PanicLength" -> "panic_length")
                  /\ UNCHANGED nparsed
    /\ UNCHANGED <<accepted, acceptFailed, eof, out, store, touch, seen>>

\* handle, line 292: route, up to and including the store call it starts.
\* A write that opens its file goes on in StoreWrite.
Dispatch(c) ==
    /\ pc[c] = "Dispatching"
    /\ LET request == cur[c]
           key == FileKey(request)
           r == IF CallsRead(request) THEN fs_read(store, key)
                ELSE IF CallsWrite(request)
                     /\ OpenError(store, key, TRUE) # "none"
                THEN IoErr(OpenError(store, key, TRUE))
                ELSE NoIo
           routed == route(request, r)
       IN IF CallsWrite(request) /\ OpenError(store, key, TRUE) = "none"
          THEN /\ store' = fs_create(store, key)
               /\ touch' = Insert(touch, key, [conn |-> c, idx |-> nparsed[c],
                                               phase |-> "created"])
               /\ pc' = [pc EXCEPT ![c] = "Writing"]
               /\ UNCHANGED <<listening, result, cur, io, resp, seen>>
          ELSE IF routed.kind = "PanicBody"
          THEN /\ thread_exit(c, "panic_body")
               /\ UNCHANGED <<store, touch, seen>>
          ELSE /\ pc' = [pc EXCEPT ![c] = "Responding"]
               /\ io' = [io EXCEPT ![c] = r]
               /\ resp' = [resp EXCEPT ![c] = routed.resp]
               /\ seen' = [seen EXCEPT ![c] = IF CallsRead(request)
                                              THEN TouchOf(key) ELSE NoTouch]
               /\ UNCHANGED <<listening, result, cur, store, touch>>
    /\ UNCHANGED <<accepted, acceptFailed, inbuf, eof, out, nparsed>>

\* route, line 262, second half: write_all, and the response to the POST.
StoreWrite(c) ==
    /\ pc[c] = "Writing"
    /\ store' = fs_write_all(store, FileKey(cur[c]), cur[c].body.bytes)
    /\ LET mine == [conn |-> c, idx |-> nparsed[c], phase |-> "created"]
       IN touch' = Insert(touch, FileKey(cur[c]),
                          [mine EXCEPT !.phase =
                              IF TouchOf(FileKey(cur[c])) = mine
                              THEN "written" ELSE "mixed"])
    /\ io' = [io EXCEPT ![c] = IoOk(<<>>)]
    /\ resp' = [resp EXCEPT ![c] = route(cur[c], IoOk(<<>>)).resp]
    /\ pc' = [pc EXCEPT ![c] = "Responding"]
    /\ UNCHANGED <<listening, accepted, acceptFailed, result, inbuf, eof,
                   cur, out, nparsed, seen>>

\* Variant: after a response that does not close, the loop routes the same
\* request again instead of parsing the next one.
Respond_retry(c) ==
    /\ pc[c] = "Responding"
    /\ \E broken \in BOOLEAN :
       LET encoded == encode(cur[c], resp[c])
           sc == should_close(cur[c], encoded)
           entry == [req |-> cur[c], io |-> io[c], seen |-> seen[c],
                     routed |-> resp[c], wire |-> answer(cur[c], sc.resp)]
       IN IF broken
          THEN /\ thread_exit(c, "err")
               /\ UNCHANGED out
          ELSE /\ out' = [out EXCEPT ![c] = Append(@, entry)]
               /\ IF sc.close
                  THEN thread_exit(c, "ok")
                  ELSE /\ pc' = [pc EXCEPT ![c] = "Dispatching"]
                       /\ io' = [io EXCEPT ![c] = NoIo]
                       /\ resp' = [resp EXCEPT ![c] = NoResponse]
                       /\ UNCHANGED <<listening, result, cur>>
    /\ seen' = [seen EXCEPT ![c] = NoTouch]
    /\ UNCHANGED <<accepted, acceptFailed, inbuf, eof, nparsed, store, touch>>

\* handle, lines 293-301: encode, should_close, answer, and the loop's exit.
\* broken: a write or flush of answer fails and handle returns the error.
Respond(c) ==
    /\ pc[c] = "Responding"
    /\ \E broken \in BOOLEAN :
       LET encoded == encode(cur[c], resp[c])
           sc == should_close(cur[c], encoded)
           entry == [req |-> cur[c], io |-> io[c], seen |-> seen[c],
                     routed |-> resp[c], wire |-> answer(cur[c], sc.resp)]
       IN IF broken
          THEN /\ thread_exit(c, "err")
               /\ UNCHANGED out
          ELSE /\ out' = [out EXCEPT ![c] = Append(@, entry)]
               /\ IF sc.close
                  THEN thread_exit(c, "ok")
                  ELSE /\ pc' = [pc EXCEPT ![c] = "AwaitRequest"]
                       /\ cur' = [cur EXCEPT ![c] = NoRequest]
                       /\ io' = [io EXCEPT ![c] = NoIo]
                       /\ resp' = [resp EXCEPT ![c] = NoResponse]
                       /\ UNCHANGED <<listening, result>>
    /\ seen' = [seen EXCEPT ![c] = NoTouch]
    /\ UNCHANGED <<accepted, acceptFailed, inbuf, eof, nparsed, store, touch>>

Next ==
    \/ \E c \in Conns : Accept(c)
    \/ AcceptError
    \/ \E c \in Conns : PeerClose(c)
    \/ \E c \in Conns : ParseRequest(c)
    \/ \E c \in Conns : Dispatch(c)
    \/ \E c \in Conns : StoreWrite(c)
    \/ \E c \in Conns : Respond(c)

Spec == Init /\ [][Next]_vars

(***************************************************************************)
(* Properties.                                                             *)
(***************************************************************************)
Entries == UNION {{<<c, i>> : i \in 1..Len(out[c])} : c \in Conns}

WireHas(w, name, value) == HasKey(w.headers, name) /\ w.headers[name] = value

WantsClose(req) ==
    HasKey(req.headers, H_Connection) /\ req.headers[H_Connection] = S_close

\* C1: a response carries "Connection: close" exactly when the request's
\* Connection header is "close"; after such a response the connection is
\* Closed and nothing more is read from it; after any other response the
\* loop is back in AwaitRequest.
C1_ConnectionClose ==
    [][\A c \in Conns :
         /\ Len(out'[c]) = Len(out[c]) + 1 =>
              LET e == out'[c][Len(out'[c])]
              IN IF WantsClose(e.req)
                 THEN /\ WireHas(e.wire, H_Connection, S_close)
                      /\ pc'[c] = "Closed"
                 ELSE /\ ~WireHas(e.wire, H_Connection, S_close)
                      /\ pc'[c] = "AwaitRequest"
         /\ (/\ pc[c] = "Closed"
             /\ Len(out[c]) > 0
             /\ WantsClose(out[c][Len(out[c])].req)) =>
              /\ nparsed'[c] = nparsed[c]
              /\ inbuf'[c] = inbuf[c]
              /\ out'[c] = out[c]]_vars

\* A connection answered a request with "Connection: Close" and went on,
\* then answered one with "Connection: close" and closed with input unread.
C1_Witness ==
    \E c \in Conns :
        /\ Len(out[c]) = 2
        /\ HasKey(out[c][1].req.headers, H_Connection)
        /\ ~WantsClose(out[c][1].req)
        /\ WantsClose(out[c][2].req)
        /\ pc[c] = "Closed"
        /\ inbuf[c] # <<>>

\* C2: every response written has a Content-Length header whose value is
\* the length of the body sent (the compressed length when gzip was
\* applied), and 0 when the response has no body.
C2_ContentLength ==
    \A x \in Entries :
        LET e == out[x[1]][x[2]]
            w == e.wire
        IN /\ HasKey(w.headers, H_ContentLength)
           /\ ParseI32(w.headers[H_ContentLength]) =
                  [ok |-> TRUE, val |-> Len(w.body)]
           /\ ~e.routed.body.some =>
                  w.headers[H_ContentLength] = <<"0">> /\ w.body = <<>>
           /\ HasKey(w.headers, H_ContentEncoding) =>
                  /\ Len(w.body) = Len(gzip(e.routed.body.bytes))
                  /\ Len(w.body) # Len(e.routed.body.bytes)

\* One connection has sent a compressed body and a response without body.
C2_Witness ==
    \E x \in Entries, y \in Entries :
        /\ x[1] = y[1]
        /\ HasKey(out[x[1]][x[2]].wire.headers, H_ContentEncoding)
        /\ ~out[y[1]][y[2]].routed.body.some

AsksGzip(req) ==
    /\ HasKey(req.headers, H_AcceptEncoding)
    /\ LET toks == Split(req.headers[H_AcceptEncoding], COMMA)
       IN \E i \in 1..Len(toks) : Trim(toks[i]) = S_gzip

\* The GET of entry x read a file last written, with nothing else touching
\* it meanwhile, by request i of the same connection, a POST with a non-empty
\* body that was answered 201.
ReadsOwnPost(x, i) ==
    LET e == out[x[1]][x[2]]
        p == out[x[1]][i]
    IN /\ e.req.method = "Get"
       /\ StartsWith(e.req.path, S_Files)
       /\ ~AsksGzip(e.req)
       /\ e.seen = [conn |-> x[1], idx |-> i, phase |-> "written"]
       /\ i < x[2]
       /\ p.req.method = "Post"
       /\ p.req.path = e.req.path
       /\ p.req.body.some /\ p.req.body.bytes # <<>>
       /\ p.wire.status = "201 Created"

\* C3: a GET of /files/k without gzip, after a POST of the non-empty body B
\* to /files/k on the same connection was answered 201 and with no other
\* write to k in between, is answered 200 with body B.
C3_StoreRoundTrip ==
    \A x \in Entries : \A i \in 1..Len(out[x[1]]) :
        ReadsOwnPost(x, i) =>
            /\ out[x[1]][x[2]].wire.status = "200 OK"
            /\ out[x[1]][x[2]].wire.body = out[x[1]][i].req.body.bytes

C3_Witness == \E x \in Entries : \E i \in 1..Len(out[x[1]]) : ReadsOwnPost(x, i)

HasText(r, text) ==
    /\ WireHas(r, H_ContentType, S_textplain)
    /\ r.body = Some(text)

\* C4: route answers by the first matching rule: "/" 200 without body;
\* "/echo/" prefix 200 text/plain with the rest of the path; "/user-agent"
\* prefix 200 text/plain with the User-Agent value or the empty string;
\* "/files/" prefix with GET or POST the result of the store call; anything
\* else 404 without body and without a store call.
C4_RouteDispatch ==
    \A x \in Entries :
        LET e == out[x[1]][x[2]]
            q == e.req
            r == e.routed
        IN IF q.path = <<"/">>
           THEN e.wire.status = "200 OK" /\ ~r.body.some /\ e.io.kind = "none"
           ELSE IF StartsWith(q.path, S_Echo)
           THEN /\ e.wire.status = "200 OK" /\ e.io.kind = "none"
                /\ HasText(r, SubSeq(q.path, 7, Len(q.path)))
           ELSE IF StartsWith(q.path, S_UserAgentPath)
           THEN /\ e.wire.status = "200 OK" /\ e.io.kind = "none"
                /\ HasText(r, IF HasKey(q.headers, H_UserAgent)
                              THEN q.headers[H_UserAgent] ELSE <<>>)
           ELSE IF StartsWith(q.path, S_Files) /\ q.method \in {"Get", "Post"}
           THEN e.io.kind \in {"ok", "err"}
           ELSE /\ e.wire.status = "404 Not Found" /\ e.io.kind = "none"
                /\ ~r.body.some /\ r.headers = EmptyMap

\* A request with another method on the /files/ prefix, and a request whose
\* path only starts with "/user-agent", have been answered.
C4_Witness ==
    \E x \in Entries, y \in Entries :
        /\ StartsWith(out[x[1]][x[2]].req.path, S_Files)
        /\ out[x[1]][x[2]].req.method = "Unknown"
        /\ StartsWith(out[y[1]][y[2]].req.path, S_UserAgentPath)
        /\ out[y[1]][y[2]].req.path # S_UserAgentPath

\* C5: every request parse_request returned is answered (the handler of a
\* connection whose transport did not fail never ends with a parsed request
\* left unanswered), with status 200, 201, 404 or 500.
C5_EveryRequestAnswered ==
    /\ \A c \in Conns :
          (pc[c] = "Closed" /\ result[c] # "err") => Len(out[c]) = nparsed[c]
    /\ \A x \in Entries :
          out[x[1]][x[2]].wire.status \in
              {"200 OK", "201 Created", "404 Not Found",
               "500 Internal Server Error"}

\* C6: a header line without a colon, or a Content-Length of a POST that is
\* not a number, ends the handler by an Err of handle, never by a panic.
C6_ParseErrorIsIoError ==
    \A c \in Conns : result[c] \notin {"panic_header", "panic_length"}

\* C7: when the first line read in AwaitRequest has not exactly three
\* fields, the handler ends with Ok, the connection is Closed, no response
\* is written and nothing after that line is read.
C7_BadStartLine ==
    [][\A c \in Conns :
         (/\ pc[c] = "AwaitRequest"
          /\ pc'[c] # "AwaitRequest"
          /\ result'[c] # "err"
          /\ ReadLine(inbuf[c], eof[c], FALSE).kind = "Line"
          /\ Len(Split(ReadLine(inbuf[c], eof[c], FALSE).line, SP)) # 3) =>
             /\ pc'[c] = "Closed"
             /\ result'[c] = "ok"
             /\ out'[c] = out[c]
             /\ nparsed'[c] = nparsed[c]
             /\ inbuf'[c] = ReadLine(inbuf[c], eof[c], FALSE).rest]_vars

\* A connection closed on a bad start line after one answered request, with
\* the bytes after that line still unread.
C7_Witness ==
    \E c \in Conns :
        /\ pc[c] = "Closed" /\ result[c] = "ok"
        /\ nparsed[c] = 1 /\ Len(out[c]) = 1
        /\ ~WantsClose(out[c][1].req)
        /\ inbuf[c] # <<>>

\* What a client recovers from a gzip body: the payload between the magic
\* bytes and the trailer.
gunzip(bytes) == SubSeq(bytes, Len(GzMagic) + 1, Len(bytes) - 1)

\* The headers of the wire response apart from those encode, should_close
\* and answer add.
RoutedHeaders(w) ==
    [k \in DOMAIN w.headers \ {H_ContentLength, H_Connection, H_ContentEncoding}
        |-> w.headers[k]]

\* C8: the body is replaced by its gzip form and Content-Encoding: gzip is
\* added exactly when the response has a body and some comma-separated,
\* trimmed token of Accept-Encoding is "gzip"; otherwise body and headers
\* stay as route made them.
C8_Encode ==
    \A x \in Entries :
        LET e == out[x[1]][x[2]]
            w == e.wire
        IN /\ RoutedHeaders(w) = e.routed.headers
           /\ IF e.routed.body.some /\ AsksGzip(e.req)
              THEN /\ WireHas(w, H_ContentEncoding, S_gzip)
                   /\ w.body = gzip(e.routed.body.bytes)
                   /\ gunzip(w.body) = e.routed.body.bytes
                   /\ w.body # e.routed.body.bytes
              ELSE /\ ~HasKey(w.headers, H_ContentEncoding)
                   /\ w.body = e.routed.body.bytes

\* Answered: a request with several tokens of which one is gzip (encoded), a
\* request with the token GZIP (not encoded) and a request asking for gzip
\* whose response has no body.
C8_Witness ==
    \E x \in Entries, y \in Entries, z \in Entries :
        /\ AsksGzip(out[x[1]][x[2]].req)
        /\ out[x[1]][x[2]].req.headers[H_AcceptEncoding] # S_gzip
        /\ HasKey(out[x[1]][x[2]].wire.headers, H_ContentEncoding)
        /\ HasKey(out[y[1]][y[2]].req.headers, H_AcceptEncoding)
        /\ ~AsksGzip(out[y[1]][y[2]].req)
        /\ out[y[1]][y[2]].routed.body.some
        /\ AsksGzip(out[z[1]][z[2]].req)
        /\ ~out[z[1]][z[2]].routed.body.some

\* C9: on the /files/ routes a successful read gives 200 with Content-Type
\* application/octet-stream and the bytes read, a successful write 201
\* without body, a not-found error of the store 404 without body, and any
\* other store error 500 with the error's text as a text/plain body.
C9_StoreErrors ==
    \A x \in Entries :
        LET e == out[x[1]][x[2]]
            r == e.routed
        IN e.io.kind # "none" =>
             IF e.io.kind = "ok" /\ e.req.method = "Get"
             THEN /\ e.wire.status = "200 OK"
                  /\ WireHas(r, H_ContentType, S_octet)
                  /\ r.body = Some(e.io.data)
             ELSE IF e.io.kind = "ok"
             THEN e.wire.status = "201 Created" /\ ~r.body.some
             ELSE IF e.io.err = "NotFound"
             THEN e.wire.status = "404 Not Found" /\ ~r.body.some
             ELSE /\ e.wire.status = "500 Internal Server Error"
                  /\ HasText(r, ErrText(e.io.err))

\* A POST and a GET have each met a store error that is not not-found, and
\* a POST has met a not-found error.
C9_Witness ==
    \E x \in Entries, y \in Entries, z \in Entries :
        /\ out[x[1]][x[2]].req.method = "Post"
        /\ out[x[1]][x[2]].io.err = "IsADirectory"
        /\ out[y[1]][y[2]].req.method = "Get"
        /\ out[y[1]][y[2]].io.err = "IsADirectory"
        /\ out[z[1]][z[2]].req.method = "Post"
        /\ out[z[1]][z[2]].io.err = "NotFound"

\* C10: a step in which the handler of one connection ends by an error or
\* a panic leaves the state of every other connection as it was, and main
\* stays in its accept loop.
C10_Isolation ==
    [][\A c \in Conns :
         (result[c] = "running" /\ result'[c] \in Panics \cup {"err"}) =>
             /\ listening'
             /\ \A d \in Conns \ {c} :
                   /\ pc'[d] = pc[d] /\ result'[d] = result[d]
                   /\ inbuf'[d] = inbuf[d] /\ eof'[d] = eof[d]
                   /\ cur'[d] = cur[d] /\ resp'[d] = resp[d]
                   /\ out'[d] = out[d] /\ nparsed'[d] = nparsed[d]]_vars

\* One handler has panicked, another has failed on its transport, and each
\* had answered a request before.
C10_Witness ==
    \E c \in Conns, d \in Conns :
        /\ result[c] \in Panics /\ Len(out[c]) >= 1
        /\ result[d] = "err" /\ Len(out[d]) >= 1
        /\ listening

\* The store entry of key k differs between the two states of a step.
EntryChanges(k) ==
    \/ HasKey(store, k) # HasKey(store', k)
    \/ HasKey(store, k) /\ HasKey(store', k) /\ store'[k] # store[k]

Parsed ==
    {out[x[1]][x[2]].req : x \in Entries}
        \cup {cur[c] : c \in {d \in Conns : pc[d] \in {"Dispatching", "Writing",
                                                       "Responding"}}}

PositiveLength(request) ==
    /\ HasKey(request.headers, H_ContentLength)
    /\ ParseI32(request.headers[H_ContentLength]).ok
    /\ ParseI32(request.headers[H_ContentLength]).val > 0

\* C13: a Request returned by parse_request has a body only if its method
\* is POST and its Content-Length header is a positive integer.
C13_BodyPresence ==
    \A q \in Parsed : q.body.some => q.method = "Post" /\ PositiveLength(q)

\* C14: the body of a parsed POST whose Content-Length is the positive
\* integer n has exactly n bytes.
C14_BodyLength ==
    \A q \in Parsed :
        (q.method = "Post" /\ PositiveLength(q)) =>
            /\ q.body.some
            /\ Len(q.body.bytes) = ParseI32(q.headers[H_ContentLength]).val

\* C15: a handler does not end by a panic on the end of the stream inside
\* the header block; it ends with the I/O error returned by parse_request.
C15_EofInHeaders == \A c \in Conns : result[c] # "panic_eof"

InHand == {"Dispatching", "Writing", "Responding"}

\* C16: on each connection a request is parsed only in AwaitRequest with
\* every earlier request answered; the request is kept as parsed until its
\* response is written; it is routed once (Dispatching is entered only by a
\* parse); and the i-th response written answers the i-th request parsed.
C16_Sequential ==
    [][\A c \in Conns :
         /\ nparsed'[c] # nparsed[c] =>
               /\ nparsed'[c] = nparsed[c] + 1
               /\ pc[c] = "AwaitRequest" /\ pc'[c] = "Dispatching"
               /\ Len(out[c]) = nparsed[c] /\ out'[c] = out[c]
         /\ (pc'[c] = "Dispatching" /\ pc[c] # "Dispatching") =>
               nparsed'[c] = nparsed[c] + 1
         /\ (pc[c] \in InHand /\ pc'[c] \in InHand) =>
               /\ cur'[c] = cur[c] /\ inbuf'[c] = inbuf[c]
               /\ pc'[c] # pc[c] => pc[c] # "Responding"
         /\ out'[c] # out[c] =>
               /\ pc[c] = "Responding"
               /\ Len(out[c]) + 1 = nparsed[c]
               /\ out'[c] = Append(out[c], out'[c][nparsed[c]])
               /\ out'[c][nparsed[c]].req = cur[c]
               /\ out'[c][nparsed[c]].routed = resp[c]]_vars

\* A connection has parsed its third request with two responses written.
C16_Witness ==
    \E c \in Conns :
        /\ nparsed[c] = 3 /\ Len(out[c]) = 2 /\ pc[c] = "Responding"
        /\ out[c][1].req # out[c][2].req /\ out[c][2].req # cur[c]

\* The loop of handle on connection c has ended.
Ended(c) == pc[c] = "Closed" \/ result[c] \notin {"none", "running"}

\* C17: once the loop of a connection has ended (a closing response, no
\* request, an error of parsing or writing, a panic), the connection stays
\* Closed: nothing more is read from its stream, no request is parsed or
\* routed and no response is written on it.
C17_ClosedTerminal ==
    [][\A c \in Conns :
         Ended(c) =>
             /\ pc'[c] = "Closed" /\ result'[c] = result[c]
             /\ inbuf'[c] = inbuf[c] /\ eof'[c] = eof[c]
             /\ nparsed'[c] = nparsed[c] /\ cur'[c] = cur[c]
             /\ resp'[c] = resp[c] /\ out'[c] = out[c]]_vars

\* One connection is Closed after a closing response with the bytes of a
\* further request left unread, another is Closed after an error, and main
\* has been through a failed accept.
C17_Witness ==
    \E c \in Conns, d \in Conns :
        /\ pc[c] = "Closed" /\ result[c] = "ok" /\ inbuf[c] # <<>>
        /\ Len(out[c]) > 0 /\ WantsClose(out[c][Len(out[c])].req)
        /\ pc[d] = "Closed" /\ result[d] = "err"
        /\ acceptFailed

(***************************************************************************)
(* Fair scheduling.  The handler of a connection runs on its own thread     *)
(* (line 328): a handler that has a request in hand eventually takes its   *)
(* next step, and so does a handler whose read can return.  A peer that is *)
(* waited for eventually shuts down its sending side.  A transport failure *)
(* is never forced.                                                        *)
(*                                                                         *)
(* ReadFair(c) is WF_vars(ReadStep(c)) written out, []<>~ENABLED \/ []<>A, *)
(* with ENABLED <<ReadStep(c)>>_vars replaced by the state predicate       *)
(* CanRead(c) it equals: in AwaitRequest either the read can return        *)
(* (Runnable) or the peer can still close.                                 *)
(***************************************************************************)
Runnable(c) == parse_request(inbuf[c], eof[c], FALSE).kind # "Block"

ReadStep(c) == (Runnable(c) /\ ParseRequest(c)) \/ PeerClose(c)

CanRead(c) == pc[c] = "AwaitRequest" /\ (Runnable(c) \/ ~eof[c])

ReadFair(c) == []<>(~CanRead(c)) \/ []<><<ReadStep(c)>>_vars

FairSpec ==
    /\ Spec
    /\ \A c \in Conns :
          /\ WF_vars(Dispatch(c) \/ StoreWrite(c) \/ Respond(c))
          /\ ReadFair(c)

\* C18: under fair scheduling and with peers that close after the bytes they
\* send, every accepted connection eventually is Closed; and a handler waits
\* in AwaitRequest only for a peer that has not closed (once the peer has
\* closed, parse_request returns).
C18_EventuallyClosed ==
    /\ \A c \in Conns : (pc[c] # "Idle") ~> (pc[c] = "Closed")
    /\ [](\A c \in Conns :
             (pc[c] = "AwaitRequest" /\ eof[c]) =>
                 parse_request(inbuf[c], TRUE, FALSE).kind # "Block")

\* A connection whose handler waited for bytes until its peer closed is
\* Closed, having taken the end of the stream for the end of a body.
C18_Witness ==
    \E c \in Conns :
        /\ pc[c] = "Closed" /\ eof[c] /\ inbuf[c] = <<>>
        /\ Len(out[c]) = 1 /\ out[c][1].req.method = "Post"
        /\ ~PositiveLength(out[c][1].req)

\* The answered POSTs to a path: log positions with status 201.
Posted(path) ==
    {x \in Entries : /\ out[x[1]][x[2]].req.method = "Post"
                     /\ out[x[1]][x[2]].req.path = path
                     /\ out[x[1]][x[2]].wire.status = "201 Created"}

\* No handler is at work on a POST to the path, and none has lost the
\* response to one.
NoPostInHand(path) ==
    \A d \in Conns :
        /\ result[d] # "err"
        /\ ~(pc[d] \in InHand /\ cur[d].method = "Post" /\ cur[d].path = path)

\* C19: when POSTs of two connections to the same /files/k have been
\* answered 201 and no other POST to it is under way, a GET of /files/k is
\* answered 200 with the body of one of those POSTs.
C19_LastWriterWins ==
    [][\A c \in Conns :
         (/\ pc[c] = "Dispatching" /\ pc'[c] = "Responding"
          /\ cur[c].method = "Get" /\ StartsWith(cur[c].path, S_Files)
          /\ \E x \in Posted(cur[c].path), y \in Posted(cur[c].path) : x[1] # y[1]
          /\ NoPostInHand(cur[c].path)) =>
             /\ resp'[c].status = "Ok"
             /\ resp'[c].body \in
                   {Some(out[x[1]][x[2]].req.body.bytes) : x \in Posted(cur[c].path)}]_vars

\* The bytes of a stream after its first blank line (an LF followed by CR
\* LF), the end of the header block.
HasBlankLine(buf) ==
    \E i \in 1..(Len(buf) - 2) : buf[i] = LF /\ buf[i + 1] = CR /\ buf[i + 2] = LF

AfterBlankLine(buf) ==
    LET i == CHOOSE i \in 1..(Len(buf) - 2) :
                 /\ buf[i] = LF /\ buf[i + 1] = CR /\ buf[i + 2] = LF
                 /\ \A j \in 1..(i - 1) :
                       ~(buf[j] = LF /\ buf[j + 1] = CR /\ buf[j + 2] = LF)
    IN Drop(buf, i + 2)

\* C20: a request parsed with a method other than POST has no body, and
\* parse_request has consumed the stream up to the blank line and no
\* further: the bytes after it, a body announced by Content-Length included,
\* are what the next parse_request call on the connection reads.
C20_BodyOnlyForPost ==
    [][\A c \in Conns :
         (nparsed'[c] = nparsed[c] + 1 /\ cur'[c].method # "Post") =>
             /\ ~cur'[c].body.some
             /\ HasBlankLine(inbuf[c])
             /\ inbuf'[c] = AfterBlankLine(inbuf[c])]_vars

\* A GET announced a body holding a whole request, which was answered as the
\* next request; a PUT announced the body "hi", which was read as the next
\* start line and ended the loop.
C20_Witness ==
    \E c \in Conns :
        /\ Len(out[c]) = 3 /\ nparsed[c] = 3
        /\ out[c][1].req.method = "Get" /\ PositiveLength(out[c][1].req)
        /\ out[c][2].req.path = P_EchoAb /\ out[c][2].wire.body = <<"a", "b">>
        /\ out[c][3].req.method = "Unknown" /\ PositiveLength(out[c][3].req)
        /\ pc[c] = "Closed" /\ result[c] = "ok" /\ inbuf[c] = <<>>

====
